---------------------------- MODULE Spec2Model ----------------------------
(***************************************************************************)
(* Money Wiz CRM (src/app.py): the users table, the sales table, the       *)
(* Streamlit session state of each browser session and the handlers of     *)
(* main(): login with the one-time Excel sync, logout, the salesperson's   *)
(* add / update / delete forms and the manager's "Max Product per Store"   *)
(* report.                                                                 *)
(*                                                                         *)
(* Text is modelled as a tuple of one-character strings so that strip()    *)
(* and lower() are computed, not assumed.  Money and quantities are        *)
(* integers.  An OrderID "ORD-<timestamp>" is the pair <<"ORD", t>> with   *)
(* t the clock second it was generated in.                                 *)
(***************************************************************************)
EXTENDS Integers, Sequences, FiniteSets, TLC

VARIABLES
    users,          \* table users: username -> [password, role]
    sales,          \* table sales: sequence of order records, in rowid order
    session_state,  \* st.session_state of each session
    xlsx,           \* customers.xlsx: whether it exists, and its raw rows
    now,            \* datetime.now(), in seconds
    sleeping,       \* seconds left of a session's time.sleep(5)
    syncRuns,       \* calls of sync_data_from_excel made by each session
    last,           \* what the most recent script run did and displayed
    report          \* the chart data of the "Max Product per Store" report

vars == <<users, sales, session_state, xlsx, now, sleeping, syncRuns, last, report>>

----------------------------------------------------------------------------
(* Bounds *)

(* the clock stops at MaxClock; add is offered while the table has fewer *)
(* than MaxSales rows; the report is computed over at most MaxRows rows  *)
MaxClock == 2
MaxSales == 4
MaxRows == 3

(* time.sleep(5) after a successful add, update or delete *)
SleepSecs == 5

(* two browser sessions, each with its own st.session_state *)
Sessions == {1, 2}

----------------------------------------------------------------------------
(* Text: str.strip(), str.lower(), sorted() *)

UpperChars == <<"A","B","C","D","E","F","G","H","I","J","K","L","M",
                "N","O","P","Q","R","S","T","U","V","W","X","Y","Z">>
LowerChars == <<"a","b","c","d","e","f","g","h","i","j","k","l","m",
                "n","o","p","q","r","s","t","u","v","w","x","y","z">>
Whitespace == {" "}

LowerChar(c) ==
    IF \E i \in DOMAIN UpperChars : UpperChars[i] = c
    THEN LowerChars[CHOOSE i \in DOMAIN UpperChars : UpperChars[i] = c]
    ELSE c

Lower(s) == [i \in DOMAIN s |-> LowerChar(s[i])]

Strip(s) ==
    LET keep == {i \in DOMAIN s : s[i] \notin Whitespace}
    IN  IF keep = {} THEN <<>>
        ELSE LET lo == CHOOSE i \in keep : \A j \in keep : i <= j
                 hi == CHOOSE i \in keep : \A j \in keep : j <= i
             IN  SubSeq(s, lo, hi)

(* code point order of the characters used: space, upper case, lower case *)
Ord(c) ==
    IF c \in Whitespace THEN 0
    ELSE IF \E i \in DOMAIN UpperChars : UpperChars[i] = c
         THEN CHOOSE i \in DOMAIN UpperChars : UpperChars[i] = c
         ELSE 26 + (CHOOSE i \in DOMAIN LowerChars : LowerChars[i] = c)

(* a < b for str: lexicographic by code point, a proper prefix first *)
StrLess(a, b) ==
    \E k \in 1..(Len(b)) :
        /\ \A i \in 1..(k-1) : i <= Len(a) /\ a[i] = b[i]
        /\ \/ k = Len(a) + 1
           \/ k <= Len(a) /\ Ord(a[k]) < Ord(b[k])

----------------------------------------------------------------------------
(* Literals of the program *)

AdminName == <<"a","d","m","i","n">>
AdminPw == "admin123"
DefaultPw == "password123"
RoleSalesperson == "Salesperson"
RoleManager == "Region Manager"

(* hashlib.sha256(p.encode()).hexdigest(): injective on the passwords used *)
Hash(p) == <<"sha256", p>>

Laptop == <<"L","a","p","t","o","p">>
Phone == <<"P","h","o","n","e">>
Tablet == <<"T","a","b","l","e","t">>
DefaultProducts == {Laptop, Phone, Tablet}
DefaultRegions == {<<"N","o","r","t","h">>, <<"S","o","u","t","h">>,
                   <<"E","a","s","t">>, <<"W","e","s","t">>}
DefaultStores == {<<"S","t","o","r","e"," ","A">>, <<"S","t","o","r","e"," ","B">>}
DefaultManagers == {<<"A","d","m","i","n">>}

(* f"ORD-{datetime.now().strftime('%Y%m%d%H%M%S')}" *)
GenOrderID(t) == <<"ORD", t>>


----------------------------------------------------------------------------
(* customers.xlsx: the row sources the deployment may hold *)

NoFile == [exists |-> FALSE, rows |-> <<>>]
ExcelFile(rows) == [exists |-> TRUE, rows |-> rows]

RawRow(sp, rm, reg, loc, prod, q, up, di, sc, tp, oid) ==
    [Salesperson |-> sp, RegionManager |-> rm, Region |-> reg, StoreLocation |-> loc,
     Product |-> prod, Quantity |-> q, UnitPrice |-> up, Discount |-> di,
     ShippingCost |-> sc, TotalPrice |-> tp, OrderID |-> oid]

(* two salespeople whose rows carry the same OrderID; the second row's   *)
(* TotalPrice is not the formula's value, as a spreadsheet may hold       *)
TwoRowFile ==
    << RawRow(<<" ","A","l">>, <<"A","d","m","i","n">>, <<"N","o","r","t","h"," ">>,
              <<"S","t","o","r","e"," ","A">>, Laptop, 1, 5, 0, 0, 5, GenOrderID(-1)),
       RawRow(<<"b","o">>, <<"A","d","m","i","n"," ">>, <<"N","o","r","t","h"," ">>,
              <<"S","t","o","r","e"," ","A">>, Laptop, 2, 3, 1, 1, 9, GenOrderID(-1)) >>

OneRowFile ==
    << RawRow(<<"A","L"," ">>, <<"a","d","m","i","n">>, <<" ","E","a","s","t">>,
              <<"s","t","o","r","e"," ","b">>, Phone, 1, 5, 0, 0, 5, GenOrderID(-2)) >>

Files == {NoFile, ExcelFile(OneRowFile), ExcelFile(TwoRowFile)}

(* what the user may type into the forms *)
LoginNames == {AdminName, <<"A","l"," ">>, <<"b","o">>}
Passwords == {AdminPw, DefaultPw}

(* <<Quantity, UnitPrice, Discount, ShippingCost>> typed into a form *)
NumberInputs == { <<2, 3, 1, 2>>, <<1, 0, 1, 0>>, <<0, 3, 0, 1>>, <<1, -1, 0, 0>> }

(* what can go wrong inside the try block of sync_data_from_excel *)
SyncFaults == {"none", "read", "append", "provision"}

----------------------------------------------------------------------------
(* Helpers on tables *)

RECURSIVE Unique(_)
(* Series.unique(): the distinct values in order of first appearance *)
Unique(seq) ==
    IF seq = <<>> THEN <<>>
    ELSE LET rest == Unique(SubSeq(seq, 1, Len(seq) - 1))
             x == seq[Len(seq)]
         IN  IF \E i \in DOMAIN rest : rest[i] = x THEN rest ELSE Append(rest, x)

Column(df, col) == [i \in DOMAIN df |-> df[i][col]]

(* get_choices: the column's distinct values, or the defaults for an empty frame *)
get_choices(df, column, defaults) ==
    IF df # <<>> THEN {df[i][column] : i \in DOMAIN df} ELSE defaults

(* INSERT OR REPLACE *)
InsertOrReplace(tbl, u, p, r) ==
    [x \in DOMAIN tbl \cup {u} |->
        IF x = u THEN [password |-> p, role |-> r] ELSE tbl[x]]

(* INSERT OR IGNORE INTO users VALUES (:u, :p, :r) *)
InsertOrIgnore(tbl, u, p, r) ==
    IF u \in DOMAIN tbl THEN tbl
    ELSE [x \in DOMAIN tbl \cup {u} |->
            IF x = u THEN [password |-> p, role |-> r] ELSE tbl[x]]

(* init_db(): CREATE TABLE IF NOT EXISTS users; INSERT OR IGNORE the admin *)
init_db(tbl) == InsertOrIgnore(tbl, AdminName, Hash(AdminPw), RoleManager)


----------------------------------------------------------------------------
(* sync_data_from_excel *)

NormCols == {"Salesperson", "RegionManager", "Region", "StoreLocation"}

(* lower-casing without the strip *)
NormalizeCellNoStrip(v) == Lower(v)

(* df[col] = df[col].astype(str).str.strip().str.lower() *)
NormalizeCell(v) == Lower(Strip(v))

NormalizeRow(r) ==
    [c \in DOMAIN r |-> IF c \in NormCols THEN NormalizeCell(r[c]) ELSE r[c]]

NormalizeFrame(rows) == [i \in DOMAIN rows |-> NormalizeRow(rows[i])]

(* if_exists="replace" *)
ToSqlReplace(tbl, df) == df

(* df.to_sql("sales", conn.engine, if_exists="append", index=False) *)
ToSqlAppend(tbl, df) == tbl \o df

RECURSIVE InsertUsers(_, _, _)
(* for user in df[col].dropna().unique(): INSERT OR IGNORE ... *)
InsertUsers(tbl, names, role) ==
    IF names = <<>> THEN tbl
    ELSE InsertUsers(InsertOrIgnore(tbl, Head(names), Hash(DefaultPw), role),
                     Tail(names), role)

(* the Salesperson column first, then the RegionManager column *)
ProvisionUsers(tbl, df) ==
    InsertUsers(InsertUsers(tbl, Unique(Column(df, "Salesperson")), RoleSalesperson),
                Unique(Column(df, "RegionManager")), RoleManager)

(* The outcome of one call: the two tables and whether st.error was shown.   *)
(* A fault is an exception raised by the named step; the steps before it     *)
(* have taken effect (to_sql commits on its own), the uncommitted session    *)
(* of the provisioning loop is rolled back.                                  *)
sync_data_from_excel(file, fault, salesTbl, usersTbl) ==
    IF ~file.exists
    THEN [sales |-> salesTbl, users |-> usersTbl, error |-> FALSE]
    ELSE IF fault = "read"
    THEN [sales |-> salesTbl, users |-> usersTbl, error |-> TRUE]
    ELSE LET df == NormalizeFrame(file.rows) IN
         IF fault = "append"
         THEN [sales |-> salesTbl, users |-> usersTbl, error |-> TRUE]
         ELSE IF fault = "provision"
         THEN [sales |-> ToSqlAppend(salesTbl, df), users |-> usersTbl, error |-> TRUE]
         ELSE [sales |-> ToSqlAppend(salesTbl, df),
               users |-> ProvisionUsers(usersTbl, df), error |-> FALSE]

----------------------------------------------------------------------------
(* State *)

NoSession == [logged_in |-> FALSE, username |-> <<>>, role |-> "", synced |-> FALSE]

Event(kind, s) == [kind |-> kind, sess |-> s]

Init ==
    /\ users = <<>>
    /\ sales = <<>>
    /\ session_state = [s \in Sessions |-> NoSession]
    /\ xlsx \in Files
    /\ now = 0
    /\ sleeping = [s \in Sessions |-> 0]
    /\ syncRuns = [s \in Sessions |-> 0]
    /\ last = Event("start", 0)
    /\ report = <<>>

(* a script run of session s can start: its previous run is not asleep *)
CanRun(s) == sleeping[s] = 0

(* the sync without its guard *)
NeedSyncAlways(s) == TRUE

(* if "synced" not in st.session_state *)
NeedSync(s) == ~session_state[s].synced

----------------------------------------------------------------------------
(* login(): the Login button with the typed name and password *)

LoginAttempt(s, u_raw, p_input, fault) ==
    LET db == init_db(users)
        u_input == Lower(Strip(u_raw))
        hpw == Hash(p_input)
        found == u_input \in DOMAIN db /\ db[u_input].password = hpw
    IN  IF found
        THEN LET res == IF NeedSync(s)
                        THEN sync_data_from_excel(xlsx, fault, sales, db)
                        ELSE [sales |-> sales, users |-> db, error |-> FALSE]
             IN  /\ session_state' = [session_state EXCEPT ![s] =
                         [logged_in |-> TRUE, username |-> u_input,
                          role |-> db[u_input].role, synced |-> TRUE]]
                 /\ sales' = res.sales
                 /\ users' = res.users
                 /\ syncRuns' = [syncRuns EXCEPT ![s] = @ + (IF NeedSync(s) THEN 1 ELSE 0)]
                 /\ last' = Event(IF res.error THEN "sync_error"
                                  ELSE IF NeedSync(s) THEN "synced" ELSE "login", s)
        ELSE /\ users' = db
             /\ last' = Event("invalid_credentials", s)
             /\ UNCHANGED <<sales, session_state, syncRuns>>

(* a fault can only strike where the try block is entered *)
FaultsOf(s) == IF NeedSync(s) /\ xlsx.exists THEN SyncFaults ELSE {"none"}

Login(s) ==
    /\ CanRun(s)
    /\ ~session_state[s].logged_in
    /\ \E u_raw \in LoginNames, p_input \in Passwords, fault \in FaultsOf(s) :
            LoginAttempt(s, u_raw, p_input, fault)
    /\ UNCHANGED <<xlsx, now, sleeping, report>>

(* the Logout button *)
Logout(s) ==
    /\ CanRun(s)
    /\ session_state[s].logged_in
    /\ users' = init_db(users)
    /\ session_state' = [session_state EXCEPT ![s].logged_in = FALSE]
    /\ last' = Event("logout", s)
    /\ UNCHANGED <<sales, xlsx, now, sleeping, syncRuns, report>>


----------------------------------------------------------------------------
(* The salesperson workspace *)

IsSalesperson(s) ==
    /\ session_state[s].logged_in
    /\ session_state[s].role = RoleSalesperson

(* my_data = df_all[df_all["Salesperson"].astype(str).str.lower() == user] *)
MyRows(df_all, user) == {i \in DOMAIN df_all : Lower(df_all[i].Salesperson) = user}

(* number_input(..., min_value=1) for Quantity, min_value=0.0 for the money fields *)
AddNumberInputs ==
    {n \in NumberInputs : n[1] >= 1 /\ n[2] >= 0 /\ n[3] >= 0 /\ n[4] >= 0}

(* the total without the shipping cost *)
CalcTotalNoShipping(qty, u_p, disc, ship) == qty * u_p - disc

(* qty*u_p - disc + ship *)
CalcTotal(qty, u_p, disc, ship) == qty * u_p - disc + ship

(* INSERT INTO sales (...) VALUES (...) with the form's values *)
InsertOrder(s, n, prod, reg, loc, r_man) ==
    sales' = Append(sales,
        [Salesperson |-> session_state[s].username, RegionManager |-> Lower(r_man),
         Region |-> Lower(reg), StoreLocation |-> Lower(loc), Product |-> prod,
         Quantity |-> n[1], UnitPrice |-> n[2], Discount |-> n[3],
         ShippingCost |-> n[4], TotalPrice |-> CalcTotal(n[1], n[2], n[3], n[4]),
         OrderID |-> GenOrderID(now)])

(* the Submit button of add_form *)
Add(s) ==
    /\ CanRun(s)
    /\ IsSalesperson(s)
    /\ Len(sales) < MaxSales
    /\ \E n \in AddNumberInputs,
          prod \in get_choices(sales, "Product", DefaultProducts),
          reg \in get_choices(sales, "Region", DefaultRegions),
          loc \in get_choices(sales, "StoreLocation", DefaultStores),
          r_man \in get_choices(sales, "RegionManager", DefaultManagers) :
            InsertOrder(s, n, prod, reg, loc, r_man)
    /\ users' = init_db(users)
    /\ sleeping' = [sleeping EXCEPT ![s] = SleepSecs]
    /\ last' = Event("added", s)
    /\ UNCHANGED <<session_state, xlsx, now, syncRuns, report>>

(* the WHERE clause without the owner *)
UpdateWhereAnyOwner(r, oid, u) == r.OrderID = oid

(* WHERE OrderID=:oid AND Salesperson=:u *)
UpdateWhere(r, oid, u) == r.OrderID = oid /\ r.Salesperson = u

(* UPDATE sales SET ... WHERE ... with the form's values *)
UpdateOrders(tbl, search_oid, user, n, prod, reg, loc) ==
    [i \in DOMAIN tbl |->
        IF UpdateWhere(tbl[i], search_oid, user)
        THEN [tbl[i] EXCEPT
                !.Product = prod, !.Quantity = n[1], !.Region = Lower(reg),
                !.UnitPrice = n[2], !.StoreLocation = Lower(loc), !.Discount = n[3],
                !.TotalPrice = CalcTotal(n[1], n[2], n[3], n[4]),
                !.ShippingCost = n[4]]
        ELSE tbl[i]]

(* what may be typed into "Enter OrderID to Modify" *)
SearchOids == {sales[i].OrderID : i \in DOMAIN sales} \cup {GenOrderID(now)}

(* the Apply Full Update button of full_up_form, or the "OrderID not found" warning *)
Update(s) ==
    /\ CanRun(s)
    /\ IsSalesperson(s)
    /\ users' = init_db(users)
    /\ \E search_oid \in SearchOids :
        LET user == session_state[s].username
            record == {i \in MyRows(sales, user) : sales[i].OrderID = search_oid}
        IN  IF record # {}
            THEN /\ \E n \in NumberInputs,
                       prod \in get_choices(sales, "Product", {Laptop}),
                       reg \in get_choices(sales, "Region", {<<"N","o","r","t","h">>}),
                       loc \in get_choices(sales, "StoreLocation",
                                           {<<"S","t","o","r","e"," ","A">>}) :
                        sales' = UpdateOrders(sales, search_oid, user, n, prod, reg, loc)
                 /\ sleeping' = [sleeping EXCEPT ![s] = SleepSecs]
                 /\ last' = Event("updated", s)
            ELSE /\ last' = Event("not_found", s)
                 /\ UNCHANGED <<sales, sleeping>>
    /\ UNCHANGED <<session_state, xlsx, now, syncRuns, report>>

(* WHERE OrderID=:oid AND Salesperson=:u *)
DeleteWhere(r, oid, u) == r.OrderID = oid /\ r.Salesperson = u

RECURSIVE DeleteFrom(_, _, _)
(* DELETE FROM sales WHERE ... : the rows that stay, in rowid order *)
DeleteFrom(tbl, oid, u) ==
    IF tbl = <<>> THEN <<>>
    ELSE IF DeleteWhere(Head(tbl), oid, u)
         THEN DeleteFrom(Tail(tbl), oid, u)
         ELSE <<Head(tbl)>> \o DeleteFrom(Tail(tbl), oid, u)

(* the Permanently Delete button, with a row of my_data selected *)
Delete(s) ==
    /\ CanRun(s)
    /\ IsSalesperson(s)
    /\ users' = init_db(users)
    /\ \E i \in MyRows(sales, session_state[s].username) :
        LET target_oid == sales[i].OrderID
        IN  sales' = DeleteFrom(sales, target_oid, session_state[s].username)
    /\ sleeping' = [sleeping EXCEPT ![s] = SleepSecs]
    /\ last' = Event("deleted", s)
    /\ UNCHANGED <<session_state, xlsx, now, syncRuns, report>>

(* one second passes; while MaxClock is below SleepSecs a session that   *)
(* has written stays asleep for the rest of the behaviour, so two writes  *)
(* in one second come from two sessions                                   *)
Tick ==
    /\ now < MaxClock
    /\ now' = now + 1
    /\ sleeping' = [s \in Sessions |-> IF sleeping[s] > 0 THEN sleeping[s] - 1 ELSE 0]
    /\ UNCHANGED <<users, sales, session_state, xlsx, syncRuns, last, report>>

----------------------------------------------------------------------------
(* The manager's "Max Product per Store" report *)

IsManager(s) ==
    /\ session_state[s].logged_in
    /\ session_state[s].role = RoleManager

RECURSIVE SumTotal(_, _, _)
(* the sum of TotalPrice over the rows of one (StoreLocation, Product) group *)
SumTotal(df, store, prod) ==
    IF df = <<>> THEN 0
    ELSE (IF Head(df).StoreLocation = store /\ Head(df).Product = prod
          THEN Head(df).TotalPrice ELSE 0) + SumTotal(Tail(df), store, prod)

GroupKeys(df) == {<<df[i].StoreLocation, df[i].Product>> : i \in DOMAIN df}

(* groupby sorts the group keys: by StoreLocation, then by Product *)
KeyLess(a, b) == StrLess(a[1], b[1]) \/ (a[1] = b[1] /\ StrLess(a[2], b[2]))

RECURSIVE SortKeys(_)
SortKeys(keys) ==
    IF keys = {} THEN <<>>
    ELSE LET least == CHOOSE k \in keys : \A j \in keys \ {k} : KeyLess(k, j)
         IN  <<least>> \o SortKeys(keys \ {least})

(* df_all.groupby(["StoreLocation", "Product"])["TotalPrice"].sum().reset_index() *)
Grouped(df) ==
    LET keys == SortKeys(GroupKeys(df))
    IN  [i \in DOMAIN keys |->
            [StoreLocation |-> keys[i][1], Product |-> keys[i][2],
             TotalPrice |-> SumTotal(df, keys[i][1], keys[i][2])]]

(* the last row of grouped holding the store's maximum *)
IdxMaxLast(grouped, store) ==
    LET rows == {i \in DOMAIN grouped : grouped[i].StoreLocation = store}
        best == {i \in rows : \A j \in rows : grouped[j].TotalPrice <= grouped[i].TotalPrice}
    IN  CHOOSE i \in best : \A j \in best : j <= i

(* idxmax within one store: the first row of grouped holding the store's maximum *)
IdxMax(grouped, store) ==
    LET rows == {i \in DOMAIN grouped : grouped[i].StoreLocation = store}
        best == {i \in rows : \A j \in rows : grouped[j].TotalPrice <= grouped[i].TotalPrice}
    IN  CHOOSE i \in best : \A j \in best : i <= j

RECURSIVE Pick(_, _, _)
(* grouped.loc[idx]: the rows at the chosen labels, in label order *)
Pick(grouped, idx, i) ==
    IF i > Len(grouped) THEN <<>>
    ELSE (IF i \in idx THEN <<grouped[i]>> ELSE <<>>) \o Pick(grouped, idx, i + 1)

(* grouped.loc[grouped.groupby("StoreLocation")["TotalPrice"].idxmax()] *)
MaxProductPerStore(df) ==
    LET grouped == Grouped(df)
        idx == {IdxMax(grouped, grouped[i].StoreLocation) : i \in DOMAIN grouped}
    IN  Pick(grouped, idx, 1)

(* the manager selects "Max Product per Store" *)
Report(s) ==
    /\ CanRun(s)
    /\ IsManager(s)
    /\ sales # <<>>
    /\ users' = init_db(users)
    /\ report' = MaxProductPerStore(sales)
    /\ last' = Event("report", s)
    /\ UNCHANGED <<sales, session_state, xlsx, now, sleeping, syncRuns>>

(* the tables a manager may find: rows over two stores and two products *)
ReportRows ==
    { RawRow(<<"a","l">>, AdminName, <<"n","o","r","t","h">>, loc, prod, 1, tp, 0, 0, tp,
             GenOrderID(-1)) :
        loc \in {<<"s","t","o","r","e"," ","a">>, <<"s","t","o","r","e"," ","b">>},
        prod \in {Laptop, Phone}, tp \in {5, 10} }

RECURSIVE SeqsUpTo(_, _)
SeqsUpTo(S, n) ==
    IF n = 0 THEN {<<>>}
    ELSE LET shorter == SeqsUpTo(S, n - 1)
         IN  shorter \cup {Append(q, x) : q \in shorter, x \in S}

(* a manager is logged in over a synced table *)
InitReport ==
    /\ users = init_db(<<>>)
    /\ sales \in SeqsUpTo(ReportRows, MaxRows)
    /\ session_state = [s \in Sessions |->
            IF s = 1 THEN [logged_in |-> TRUE, username |-> AdminName,
                           role |-> RoleManager, synced |-> TRUE]
            ELSE NoSession]
    /\ xlsx = NoFile
    /\ now = 0
    /\ sleeping = [s \in Sessions |-> 0]
    /\ syncRuns = [s \in Sessions |-> IF s = 1 THEN 1 ELSE 0]
    /\ last = Event("login", 1)
    /\ report = <<>>

NextReport == \E s \in Sessions : Report(s)

SpecReport == InitReport /\ [][NextReport]_vars

Next ==
    \/ \E s \in Sessions : Login(s)
    \/ \E s \in Sessions : Logout(s)
    \/ \E s \in Sessions : Add(s)
    \/ \E s \in Sessions : Update(s)
    \/ \E s \in Sessions : Delete(s)
    \/ Tick

Spec == Init /\ [][Next]_vars


----------------------------------------------------------------------------
(* Properties *)

(* row i of the table after the step was inserted or changed by the step *)
Written(i) == i \notin DOMAIN sales \/ sales'[i] # sales[i]

(* the user of the session whose run came last *)
Actor == session_state[last.sess].username

IsPrefix(a, b) == Len(a) <= Len(b) /\ SubSeq(b, 1, Len(a)) = a

RECURSIVE RowsOfOthers(_, _)
(* the rows whose Salesperson is not u, in table order *)
RowsOfOthers(tbl, u) ==
    IF tbl = <<>> THEN <<>>
    ELSE (IF Head(tbl).Salesperson # u THEN <<Head(tbl)>> ELSE <<>>)
         \o RowsOfOthers(Tail(tbl), u)

Imported(r) == r.OrderID[2] < 0

(* C1: every record an add or an update writes stores                      *)
(* TotalPrice = Quantity*UnitPrice - Discount + ShippingCost, computed     *)
(* from the four values stored in that same record.                        *)
C1_TotalDerived ==
    [][ last'.kind \in {"added", "updated"} =>
            \A i \in DOMAIN sales' :
                Written(i) =>
                    sales'[i].TotalPrice =
                        sales'[i].Quantity * sales'[i].UnitPrice
                        - sales'[i].Discount + sales'[i].ShippingCost ]_vars

(* an imported row whose total was off has been updated to 2*3 - 1 + 2 = 7 *)
C1_Witness ==
    /\ last.kind = "updated"
    /\ \E i \in DOMAIN sales :
        /\ Imported(sales[i])
        /\ sales[i].Quantity = 2 /\ sales[i].UnitPrice = 3
        /\ sales[i].Discount = 1 /\ sales[i].ShippingCost = 2
        /\ sales[i].TotalPrice = 7
    /\ \E j \in DOMAIN sales : ~Imported(sales[j]) /\ sales[j].ShippingCost = 2

(* C2: an update or delete by salesperson u leaves every record whose      *)
(* Salesperson is not u present and unchanged, also a record that carries  *)
(* the same OrderID as one of u's records.                                 *)
C2_ScopedToOwner ==
    [][ last'.kind \in {"updated", "deleted"} =>
            RowsOfOthers(sales', session_state'[last'.sess].username)
                = RowsOfOthers(sales, session_state'[last'.sess].username) ]_vars

(* u has updated a record while another salesperson's record has its OrderID *)
C2_Witness ==
    /\ last.kind = "updated"
    /\ \E i, j \in DOMAIN sales :
        /\ sales[i].Salesperson = Actor
        /\ sales[j].Salesperson # Actor
        /\ sales[i].OrderID = sales[j].OrderID
        /\ sales[i].Quantity = 0
        /\ sales[j].Quantity = 2 /\ sales[j].TotalPrice = 9

(* row r of the table is the import of raw row f: the columns that the    *)
(* import passes through are equal                                         *)
Matches(r, f) ==
    /\ r.OrderID = f.OrderID /\ r.Product = f.Product /\ r.Quantity = f.Quantity
    /\ r.UnitPrice = f.UnitPrice /\ r.Discount = f.Discount
    /\ r.ShippingCost = f.ShippingCost /\ r.TotalPrice = f.TotalPrice

(* C3: a sync only appends: the table before it is a prefix of the table   *)
(* after it, and a sync that reports no error adds exactly the n rows of   *)
(* the row source, in order, so that two syncs of the same source leave    *)
(* 2n matching rows.                                                       *)
C3_SyncAppends ==
    [][ \A s \in Sessions :
            syncRuns'[s] # syncRuns[s] =>
                /\ IsPrefix(sales, sales')
                /\ last'.kind = "synced" =>
                    /\ Len(sales') = Len(sales) + Len(xlsx.rows)
                    /\ \A k \in DOMAIN xlsx.rows :
                            Matches(sales'[Len(sales) + k], xlsx.rows[k]) ]_vars

(* both sessions have synced the two-row source: four rows, each row of   *)
(* the source matched twice                                                *)
C3_Witness ==
    /\ last.kind = "synced"
    /\ \A s \in Sessions : syncRuns[s] = 1
    /\ Len(xlsx.rows) = 2
    /\ Len(sales) = 4
    /\ \A k \in 1..2 : Matches(sales[k], xlsx.rows[k]) /\ Matches(sales[k + 2], xlsx.rows[k])

(* C4: no step removes or changes a directory entry, and after a sync that *)
(* reports no error every normalized Salesperson and RegionManager value   *)
(* of the source's rows has an entry.                                      *)
C4_InsertIfAbsent ==
    [][ /\ \A u \in DOMAIN users : u \in DOMAIN users' /\ users'[u] = users[u]
        /\ \A s \in Sessions :
            (syncRuns'[s] # syncRuns[s] /\ last'.kind = "synced") =>
                \A k \in DOMAIN xlsx.rows :
                    /\ Lower(Strip(xlsx.rows[k].Salesperson)) \in DOMAIN users'
                    /\ Lower(Strip(xlsx.rows[k].RegionManager)) \in DOMAIN users' ]_vars

(* a sync whose source names "Admin" as region manager has provisioned the *)
(* two salespeople and left the admin's credentials alone                  *)
C4_Witness ==
    /\ last.kind = "synced"
    /\ syncRuns[last.sess] = 1
    /\ Len(xlsx.rows) = 2
    /\ DOMAIN users = {AdminName, <<"a","l">>, <<"b","o">>}
    /\ users[AdminName] = [password |-> Hash(AdminPw), role |-> RoleManager]
    /\ users[<<"a","l">>] = [password |-> Hash(DefaultPw), role |-> RoleSalesperson]

(* C5: the OrderID of a record created by add differs from the OrderID of  *)
(* every record already in the table.                                      *)
C5_FreshOrderID ==
    [][ (last'.kind = "added" /\ Len(sales') = Len(sales) + 1) =>
            \A i \in DOMAIN sales : sales[i].OrderID # sales'[Len(sales')].OrderID ]_vars

(* C6: no record written by add or by update has a Quantity below 1 or a   *)
(* negative UnitPrice, Discount or ShippingCost.                           *)
C6_InputsValidated ==
    [][ last'.kind \in {"added", "updated"} =>
            \A i \in DOMAIN sales' :
                Written(i) =>
                    /\ sales'[i].Quantity >= 1 /\ sales'[i].UnitPrice >= 0
                    /\ sales'[i].Discount >= 0 /\ sales'[i].ShippingCost >= 0 ]_vars

(* C7: every record of the table has Salesperson, RegionManager, Region    *)
(* and StoreLocation equal to their trimmed, lower-cased form.             *)
C7_Normalized ==
    \A i \in DOMAIN sales :
        /\ sales[i].Salesperson = Lower(Strip(sales[i].Salesperson))
        /\ sales[i].RegionManager = Lower(Strip(sales[i].RegionManager))
        /\ sales[i].Region = Lower(Strip(sales[i].Region))
        /\ sales[i].StoreLocation = Lower(Strip(sales[i].StoreLocation))

(* an imported record, whose source had blanks and capitals, beside a      *)
(* record added through the form                                           *)
C7_Witness ==
    /\ last.kind = "added"
    /\ \E i, j \in DOMAIN sales :
        /\ Imported(sales[i]) /\ sales[i].Region = <<"n","o","r","t","h">>
        /\ ~Imported(sales[j]) /\ sales[j].Salesperson = <<"a","l">>

(* C8: a sync that fails leaves the sales table as it was, and the login   *)
(* completes.                                                              *)
C8_FailedSyncKeepsSales ==
    [][ \A s \in Sessions :
            (syncRuns'[s] # syncRuns[s] /\ last'.kind = "sync_error") =>
                /\ sales' = sales
                /\ session_state'[s].logged_in ]_vars

(* the pairs of a store that hold the store's largest sum *)
BestProducts(df, store) ==
    {k \in GroupKeys(df) :
        /\ k[1] = store
        /\ \A j \in GroupKeys(df) :
            j[1] = store => SumTotal(df, j[1], j[2]) <= SumTotal(df, k[1], k[2])}

(* the row at which a pair is first met in the scan of the records *)
FirstSeen(df, k) ==
    CHOOSE i \in DOMAIN df :
        /\ <<df[i].StoreLocation, df[i].Product>> = k
        /\ \A j \in DOMAIN df : <<df[j].StoreLocation, df[j].Product>> = k => i <= j

(* the report has one row per store, and it holds the store's largest sum *)
OneBestPerStore ==
    /\ \A i \in DOMAIN sales :
            Cardinality({r \in DOMAIN report :
                            report[r].StoreLocation = sales[i].StoreLocation}) = 1
    /\ \A r \in DOMAIN report :
            /\ <<report[r].StoreLocation, report[r].Product>>
                    \in BestProducts(sales, report[r].StoreLocation)
            /\ report[r].TotalPrice
                    = SumTotal(sales, report[r].StoreLocation, report[r].Product)

(* C9 as stated: one pair per store with the largest sum, a tie going to   *)
(* the pair first met in the scan order of the records.                    *)
C9_TieFirstInScan ==
    last.kind = "report" =>
        /\ OneBestPerStore
        /\ \A r \in DOMAIN report :
            \A k \in BestProducts(sales, report[r].StoreLocation) :
                FirstSeen(sales, <<report[r].StoreLocation, report[r].Product>>)
                    <= FirstSeen(sales, k)

(* C9 amended: one pair per store with the largest sum, a tie going to the *)
(* product that sorts first.                                               *)
C9_TieFirstSorted ==
    last.kind = "report" =>
        /\ OneBestPerStore
        /\ \A r \in DOMAIN report :
            \A k \in BestProducts(sales, report[r].StoreLocation) :
                k[2] = report[r].Product \/ StrLess(report[r].Product, k[2])

(* two products of one store tie, the one that sorts later scanned first   *)
C9_Witness ==
    /\ last.kind = "report"
    /\ \E i, j \in DOMAIN sales :
        /\ i < j
        /\ sales[i].StoreLocation = sales[j].StoreLocation
        /\ sales[i].Product = Phone /\ sales[j].Product = Laptop
        /\ BestProducts(sales, sales[i].StoreLocation)
                = {<<sales[i].StoreLocation, Phone>>, <<sales[i].StoreLocation, Laptop>>}
        /\ \E r \in DOMAIN report :
                report[r].StoreLocation = sales[i].StoreLocation /\ report[r].Product = Laptop

(* C10: a session's sync runs only in a successful login made while the    *)
(* synced flag is unset, every such login runs it and sets the flag, the   *)
(* flag once set stays set, and a failed login runs nothing: at most one   *)
(* run per session.                                                        *)
C10_SyncOncePerSession ==
    /\ [](\A s \in Sessions : syncRuns[s] <= 1)
    /\ [][ \A s \in Sessions :
            /\ syncRuns'[s] # syncRuns[s] =>
                    /\ ~session_state[s].synced /\ ~session_state[s].logged_in
                    /\ session_state'[s].synced /\ session_state'[s].logged_in
            /\ (~session_state[s].logged_in /\ session_state'[s].logged_in
                    /\ ~session_state[s].synced) => syncRuns'[s] = syncRuns[s] + 1
            /\ session_state[s].synced =>
                    session_state'[s].synced /\ syncRuns'[s] = syncRuns[s]
            /\ last'.kind = "invalid_credentials" => syncRuns'[s] = syncRuns[s] ]_vars

(* a session whose first sync failed has logged out and in again, and the  *)
(* sync has not run a second time                                          *)
C10_Witness ==
    /\ last.kind = "login"
    /\ syncRuns[last.sess] = 1
    /\ xlsx.exists
    /\ sales = <<>>

============================================================================
